---- MODULE Spec2Model ----
(***************************************************************************)
(* DeepRareAgent: the multi-expert (MDT) deliberation loop and the summary *)
(* node that follows it, as a state machine.                               *)
(*                                                                         *)
(* The MDT graph (p02_mdt/graph.py) is a LangGraph Pregel program: the     *)
(* nodes triggered together form one superstep, every node of a superstep  *)
(* reads the state as it was when the superstep began, and the values the  *)
(* nodes return are merged by the channel reducers when all of them have   *)
(* returned.  The expert nodes of one round form such a superstep; every   *)
(* other node runs alone, so its action includes the merge of its result.  *)
(***************************************************************************)
EXTENDS Integers, Sequences, FiniteSets, TLC

(* ---------------------------------------------------------------------- *)
(* Bounds and configuration                                                *)
(* ---------------------------------------------------------------------- *)

\* largest value of mdt_config.max_rounds that is explored
MaxRoundsCfg == 3

\* longest generated text, in tokens, given to the reference resolution
MaxTextLen == 3

\* most evidences one expert carries when the references are resolved
MaxEvidences == 2

\* most records a patient record holds, all of its lists together
MaxRecords == 2

\* most records one upsert payload carries
MaxPayload == 2

\* the keys of settings.multi_expert_diagnosis_agent, in configuration order
AllGroups == <<"group_1", "group_2", "group_3">>

\* the first n configured groups
GroupSet(n) == {AllGroups[i] : i \in 1..n}

\* Python's None
None == "None"

VARIABLES
    settings,           \* static configuration: groups, max_rounds
    pc,                 \* the node (or superstep) the scheduler runs next
    expert_pool,        \* MDTGraphState.expert_pool : group_id -> slot
    blackboard,         \* MDTGraphState.blackboard
    round_count,        \* MDTGraphState.round_count
    max_rounds,         \* MDTGraphState.max_rounds
    consensus_reached,  \* MDTGraphState.consensus_reached
    messages,           \* MDTGraphState.messages, the outer progress stream
    writes,             \* values returned by the expert nodes of the running superstep
    decision,           \* last value returned by should_continue_or_end
    final_report,       \* MainGraphState.final_report
    error,              \* exception that left the graph, None if none did
    runner_log,         \* history: per fan-out, what each expert node did
    review_log          \* history: per review pass, the verdict call of each group

\* the front of the main graph (graph.py)
VARIABLES
    start_diagnosis,        \* MainGraphState.start_diagnosis
    summary_with_dialogue,  \* MainGraphState.summary_with_dialogue
    main_log                \* history: the nodes of the main graph that have run

\* reference resolution (p03summary_agent.py)
VARIABLES
    report_text,        \* the text the summarizer model generated
    resolved,           \* the results of the successive applications of the resolution
    all_reports_text    \* the published reports as rendered for the summarizer model

\* patient record tools (tools/patientinfo.py)
VARIABLES
    patient_info,       \* the patient_info channel: bucket -> list of records
    tool_call           \* the tool call the agent is being answered, with its result

mdtvars == <<settings, pc, expert_pool, blackboard, round_count, max_rounds,
             consensus_reached, messages, writes, decision, final_report, error,
             runner_log, review_log>>

mainvars == <<start_diagnosis, summary_with_dialogue, main_log>>

refvars == <<report_text, resolved, all_reports_text>>

patvars == <<patient_info, tool_call>>

vars == <<mdtvars, mainvars, refvars, patvars>>

(* ---------------------------------------------------------------------- *)
(* Values                                                                  *)
(* ---------------------------------------------------------------------- *)

EmptyMap == [x \in {} |-> None]

\* variant: the left operand wins by key
IorKeepLeft(a, b) == [k \in (DOMAIN a) \cup (DOMAIN b) |-> IF k \in DOMAIN a THEN a[k] ELSE b[k]]

\* ior reducer of expert_pool (schema.py: operator.ior): right operand wins by key
Ior(a, b) == [k \in (DOMAIN a) \cup (DOMAIN b) |-> IF k \in DOMAIN b THEN b[k] ELSE a[k]]

\* a report text: the waiting placeholder, the final message of the n-th run
\* of group g, or the execution-error text of the n-th run
Report(kind, g, n) == [kind |-> kind, g |-> g, n |-> n]

\* a message of an expert's private history
EMsg(role, kind, n) == [role |-> role, kind |-> kind, n |-> n]

\* a message of the outer progress stream
PMsg(kind, g, n, k, m, suffix) ==
    [kind |-> kind, g |-> g, n |-> n, k |-> k, m |-> m, suffix |-> suffix]

(* ---------------------------------------------------------------------- *)
(* Triage node (p02_mdt/nodes.py)                                          *)
(* ---------------------------------------------------------------------- *)

\* the slot triage_to_mdt_node builds for one group; times_deep_diagnosis is
\* not set there and is read with default 0
InitialSlot(g) ==
    [group_id             |-> g,
     messages             |-> <<EMsg("ai", "initial", 0)>>,
     report               |-> Report("waiting", g, 0),
     evidences            |-> <<>>,
     is_satisfied         |-> FALSE,
     reinvestigate_reason |-> None,
     has_error            |-> FALSE,
     times_deep_diagnosis |-> 0]

InitialRound == 1

NoWrite == [status |-> "pending", expert_pool |-> EmptyMap, messages |-> <<>>]

triage_to_mdt_node ==
    /\ pc = "triage_to_mdt_node"
    /\ expert_pool' = Ior(expert_pool, [g \in settings.groups |-> InitialSlot(g)])
    /\ blackboard' = [published_reports |-> EmptyMap, conflicts |-> EmptyMap]
    /\ round_count' = InitialRound
    /\ max_rounds' = settings.max_rounds
    /\ consensus_reached' = FALSE
    /\ messages' = messages \o <<PMsg("initial", "", 0, 0, 0, ""),
                                 PMsg("triage", "", Cardinality(settings.groups), 0, 0, "")>>
    /\ writes' = [g \in settings.groups |-> NoWrite]
    /\ pc' = "experts"
    /\ UNCHANGED <<settings, decision, final_report, error, runner_log, review_log>>

(* ---------------------------------------------------------------------- *)
(* Expert node (p02_mdt/builddeepexportnode.py)                            *)
(* ---------------------------------------------------------------------- *)

\* evidences returned by the inner agent: its state channel accumulates
\* (operator.add) the input evidences and the ones recorded during the run
AgentEvidences(g, n, old) == old \o <<[g |-> g, n |-> n, i |-> Len(old) + 1]>>

\* variant: the node skips the slots marked as errored, and only those
RunnerSkipsOnError(slot) == slot.has_error

\* the guard of the skip branch: only is_satisfied is read
RunnerSkips(slot) == slot.is_satisfied

\* variant: the whole exchange of the run appended, not its last message only
RunnerSuccessWholeExchange(g, slot) ==
    LET n == slot.times_deep_diagnosis + 1 IN
    [slot EXCEPT !.messages = slot.messages \o <<EMsg("ai", "tool_call", n),
                                                 EMsg("ai", "report", n)>>,
                 !.evidences = AgentEvidences(g, n, slot.evidences),
                 !.has_error = FALSE,
                 !.report = Report("report", g, n),
                 !.times_deep_diagnosis = n]

\* success branch of deep_export_node
RunnerSuccess(g, slot) ==
    LET n == slot.times_deep_diagnosis + 1 IN
    [slot EXCEPT !.messages = slot.messages \o <<EMsg("ai", "report", n)>>,
                 !.evidences = AgentEvidences(g, n, slot.evidences),
                 !.has_error = FALSE,
                 !.report = Report("report", g, n),
                 !.times_deep_diagnosis = n]

\* exception branch of deep_export_node
RunnerFailure(g, slot) ==
    LET n == slot.times_deep_diagnosis + 1 IN
    [slot EXCEPT !.has_error = TRUE,
                 !.report = Report("exec_error", g, n),
                 !.times_deep_diagnosis = n]

\* what the node of group g does on a slot: skip, run to the end, run and raise
RunnerOutcomes(slot) == IF RunnerSkips(slot) THEN {"skip"} ELSE {"ok", "raise"}

\* variant: the node returns the whole pool it read, with its own slot updated
RunnerUpdateWholePool(g, pool, outcome) ==
    CASE outcome = "skip" ->
            [status |-> "skip", expert_pool |-> EmptyMap, messages |-> <<>>]
      [] outcome = "ok" ->
            [status |-> "ok",
             expert_pool |-> [pool EXCEPT ![g] = RunnerSuccess(g, pool[g])],
             messages |-> <<>>]
      [] outcome = "raise" ->
            [status |-> "raise",
             expert_pool |-> [pool EXCEPT ![g] = RunnerFailure(g, pool[g])],
             messages |-> <<PMsg("expert_error", g, 0, 0, 0, "")>>]

\* the value deep_export_node returns for group g, given the state it read
RunnerUpdate(g, pool, outcome) ==
    CASE outcome = "skip" ->
            [status |-> "skip", expert_pool |-> EmptyMap, messages |-> <<>>]
      [] outcome = "ok" ->
            [status |-> "ok",
             expert_pool |-> [k \in {g} |-> RunnerSuccess(g, pool[g])],
             messages |-> <<>>]
      [] outcome = "raise" ->
            [status |-> "raise",
             expert_pool |-> [k \in {g} |-> RunnerFailure(g, pool[g])],
             messages |-> <<PMsg("expert_error", g, 0, 0, 0, "")>>]

deep_export_node(g) ==
    /\ pc = "experts"
    /\ writes[g].status = "pending"
    /\ \E outcome \in RunnerOutcomes(expert_pool[g]) :
          writes' = [writes EXCEPT ![g] = RunnerUpdate(g, expert_pool, outcome)]
    /\ UNCHANGED <<settings, pc, expert_pool, blackboard, round_count, max_rounds,
                   consensus_reached, messages, decision, final_report, error,
                   runner_log, review_log>>

\* the messages returned by the nodes of the superstep, in task order
RECURSIVE WrittenMessages(_, _)
WrittenMessages(w, i) ==
    IF i > Len(AllGroups) THEN <<>>
    ELSE (IF AllGroups[i] \in DOMAIN w THEN w[AllGroups[i]].messages ELSE <<>>)
         \o WrittenMessages(w, i + 1)

\* variant: a node that raised makes the superstep drop what its siblings returned
MergeWritesCancelling(pool, w, i) ==
    LET failed == \E h \in DOMAIN w : w[h].status = "raise"
        kept == {g \in DOMAIN w : failed => w[g].status = "raise"}
    IN  [k \in DOMAIN pool |->
            IF k \in kept /\ k \in DOMAIN w[k].expert_pool
            THEN w[k].expert_pool[k] ELSE pool[k]]

\* the expert_pool values returned by the nodes, folded with the ior reducer
RECURSIVE MergeWrites(_, _, _)
MergeWrites(pool, w, i) ==
    IF i > Len(AllGroups) THEN pool
    ELSE MergeWrites(IF AllGroups[i] \in DOMAIN w
                       THEN Ior(pool, w[AllGroups[i]].expert_pool) ELSE pool,
                     w, i + 1)

\* variant: expert_review is triggered as soon as one expert node has returned
experts_join_first ==
    /\ pc = "experts"
    /\ \E g \in DOMAIN writes : writes[g].status # "pending"
    /\ expert_pool' = MergeWrites(expert_pool,
                           [g \in {h \in DOMAIN writes : writes[h].status # "pending"} |-> writes[g]], 1)
    /\ messages' = messages \o WrittenMessages(writes, 1)
    /\ runner_log' = Append(runner_log, [g \in DOMAIN writes |-> writes[g].status])
    /\ pc' = "expert_review"
    /\ UNCHANGED <<settings, blackboard, round_count, max_rounds, consensus_reached,
                   writes, decision, final_report, error, review_log>>

\* end of the fan-out superstep: every expert node has returned, the reducers
\* merge what they returned and expert_review is triggered
experts_join ==
    /\ pc = "experts"
    /\ \A g \in DOMAIN writes : writes[g].status # "pending"
    /\ expert_pool' = MergeWrites(expert_pool, writes, 1)
    /\ messages' = messages \o WrittenMessages(writes, 1)
    /\ runner_log' = Append(runner_log, [g \in DOMAIN writes |-> writes[g].status])
    /\ pc' = "expert_review"
    /\ UNCHANGED <<settings, blackboard, round_count, max_rounds, consensus_reached,
                   writes, decision, final_report, error, review_log>>

(* ---------------------------------------------------------------------- *)
(* Reviewer node (p02_mdt/export_reviewer_node.py)                         *)
(* ---------------------------------------------------------------------- *)

\* variant: the slots chosen without reading has_error
NeedUpdateIgnoringError(pool) == {g \in DOMAIN pool : ~pool[g].is_satisfied}

\* the slots build_reviewer_messages works on (both of its loops)
NeedUpdate(pool) == {g \in DOMAIN pool : ~pool[g].has_error /\ ~pool[g].is_satisfied}

\* variant: the report of every reviewed slot is written at every pass
PublishReportsLatest(pool, published) ==
    [g \in (DOMAIN published) \cup NeedUpdate(pool) |->
        IF g \in NeedUpdate(pool) THEN pool[g].report ELSE published[g]]

\* variant: the first loop does not pass over the slots whose run raised
PublishReportsErrored(pool, published) ==
    [g \in (DOMAIN published) \cup NeedUpdateIgnoringError(pool) |->
        IF g \in DOMAIN published THEN published[g] ELSE pool[g].report]

\* first loop of build_reviewer_messages: publish where no report is present
PublishReports(pool, published) ==
    [g \in (DOMAIN published) \cup NeedUpdate(pool) |->
        IF g \in DOMAIN published THEN published[g] ELSE pool[g].report]

\* list.insert(1, m)
InsertAt1(msgs, m) ==
    IF Len(msgs) = 0 THEN <<m>> ELSE <<Head(msgs)>> \o <<m>> \o Tail(msgs)

\* second loop of build_reviewer_messages, on one slot
ReviewerMessages(slot, round) ==
    [slot EXCEPT !.messages =
        InsertAt1(slot.messages, EMsg("human", "portrait", 0))
            \o <<EMsg("human", "other_reports", 0), EMsg("human", "reviewer_prompt", round)>>]

build_reviewer_messages(pool, round) ==
    [g \in DOMAIN pool |->
        IF g \in NeedUpdate(pool) THEN ReviewerMessages(pool[g], round) ELSE pool[g]]

\* variant: the call of g issued on the state as the pass found it
ReviewCallViewUnbuilt(pool, published, round, g) ==
    [messages |-> pool[g].messages,
     other_reports |-> [h \in (DOMAIN pool) \ {g} |-> pool[h].report],
     published_reports |-> published]

\* what the verdict call of g is given and can read: the messages built for
\* it, the peer reports written into them, and the blackboard as it is when
\* the tasks are created, after build_reviewer_messages has returned
ReviewCallView(pool, published, round, g) ==
    [messages |-> build_reviewer_messages(pool, round)[g].messages,
     other_reports |-> [h \in (DOMAIN pool) \ {g} |-> pool[h].report],
     published_reports |-> PublishReports(pool, published)]

\* a verdict call as the history keeps it: its outcome and what it was given
ReviewCall(v, view) ==
    [kind |-> v.kind, is_satisfied |-> v.is_satisfied,
     reinvestigate_reason |-> v.reinvestigate_reason, seen |-> view]

\* what one verdict call can come to: the model call or the parser raises;
\* the text parses to a JSON value that is no object; it parses to an object.
\* A satisfied verdict may carry a reason; an unsatisfied one is taken with a
\* reason (without one only the stored text differs)
VerdictOutcomes ==
    {[kind |-> "raise", is_satisfied |-> FALSE, reinvestigate_reason |-> ""],
     [kind |-> "nonobject", is_satisfied |-> FALSE, reinvestigate_reason |-> ""],
     [kind |-> "object", is_satisfied |-> TRUE, reinvestigate_reason |-> ""],
     [kind |-> "object", is_satisfied |-> TRUE, reinvestigate_reason |-> "reason"],
     [kind |-> "object", is_satisfied |-> FALSE, reinvestigate_reason |-> "reason"]}

\* process_single_expert_review: the result it returns for an outcome
ReviewResult(v) ==
    IF v.kind = "raise"
    THEN [is_object |-> TRUE, has_error |-> TRUE, is_satisfied |-> FALSE,
          reinvestigate_reason |-> "System Error during review", has_response |-> FALSE]
    ELSE [is_object |-> v.kind = "object", has_error |-> FALSE,
          is_satisfied |-> v.is_satisfied,
          reinvestigate_reason |-> v.reinvestigate_reason, has_response |-> TRUE]

\* step 3 of expert_reviewer_node on one slot
ApplyResult(slot, r) ==
    IF r.has_error THEN [slot EXCEPT !.has_error = TRUE]
    ELSE [slot EXCEPT
            !.is_satisfied = r.is_satisfied,
            !.reinvestigate_reason = r.reinvestigate_reason,
            !.messages = slot.messages
                \o (IF r.has_response THEN <<EMsg("ai", "verdict", 0)>> ELSE <<>>)
                \o (IF ~r.is_satisfied THEN <<EMsg("human", "reinvestigate", 0)>> ELSE <<>>)]

\* variant: an entry for every call without a satisfied verdict, the failed ones too
ConflictsKeepingErrored(results) ==
    [g \in {h \in DOMAIN results : ~results[h].is_satisfied} |->
        results[g].reinvestigate_reason]

\* blackboard.conflicts after step 3
Conflicts(results) ==
    [g \in {h \in DOMAIN results : ~results[h].has_error /\ ~results[h].is_satisfied} |->
        results[g].reinvestigate_reason]

\* variant: every slot counted, the errored ones too
ActiveExpertsAll(pool) == DOMAIN pool

\* active_experts: the slots without error, on the pool as step 3 left it
ActiveExperts(pool) == {g \in DOMAIN pool : ~pool[g].has_error}

\* variant: consensus as soon as one slot without error is satisfied
AllSatisfiedAny(pool) ==
    IF ActiveExperts(pool) = {} THEN TRUE
    ELSE \E g \in ActiveExperts(pool) : pool[g].is_satisfied

\* step 4: consensus over the slots without error
AllSatisfied(pool) ==
    IF ActiveExperts(pool) = {} THEN TRUE
    ELSE \A g \in ActiveExperts(pool) : pool[g].is_satisfied

\* variant: the round counter left as it is
NextRoundSame(r) == r

NextRound(r) == r + 1

\* the suffix of the progress message
ProgressSuffix(all_satisfied, round, maxr) ==
    IF all_satisfied THEN "consensus"
    ELSE IF round > maxr THEN "max_rounds" ELSE ""

expert_reviewer_node ==
    /\ pc = "expert_review"
    /\ \E verdicts \in [NeedUpdate(expert_pool) -> VerdictOutcomes] :
         LET results == [g \in DOMAIN verdicts |-> ReviewResult(verdicts[g])]
             built == build_reviewer_messages(expert_pool, round_count)
             pool2 == [g \in DOMAIN built |->
                         IF g \in DOMAIN results THEN ApplyResult(built[g], results[g])
                         ELSE built[g]]
             all_satisfied == AllSatisfied(pool2)
             round2 == NextRound(round_count)
             calls == [g \in DOMAIN verdicts |->
                         ReviewCall(verdicts[g],
                                    ReviewCallView(expert_pool, blackboard.published_reports,
                                                   round_count, g))]
         IN  IF \E g \in DOMAIN results : ~results[g].is_object
             THEN \* result.get on a value that is no dict: the node raises
                  /\ pc' = "error"
                  /\ error' = "AttributeError"
                  /\ review_log' = Append(review_log, calls)
                  /\ UNCHANGED <<expert_pool, blackboard, round_count,
                                 consensus_reached, messages>>
             ELSE /\ expert_pool' = pool2
                  /\ blackboard' = [published_reports |->
                                        PublishReports(expert_pool, blackboard.published_reports),
                                    conflicts |-> Conflicts(results)]
                  /\ round_count' = round2
                  /\ consensus_reached' = all_satisfied
                  /\ messages' = messages \o
                        <<PMsg("review", "", round2 - 1,
                               Cardinality({g \in ActiveExperts(pool2) : pool2[g].is_satisfied}),
                               Cardinality(ActiveExperts(pool2)),
                               ProgressSuffix(all_satisfied, round2, max_rounds))>>
                  /\ review_log' = Append(review_log, calls)
                  /\ pc' = "routing_decision"
                  /\ error' = error
    /\ UNCHANGED <<settings, max_rounds, writes, decision, final_report, runner_log>>

(* ---------------------------------------------------------------------- *)
(* Router and fan-out marker (p02_mdt/nodes.py, p02_mdt/graph.py)          *)
(* ---------------------------------------------------------------------- *)

\* variant: the round budget compared with > instead of >=
should_continue_or_end_gt(consensus, round, maxr) ==
    IF consensus THEN "end"
    ELSE IF round > maxr THEN "end"
    ELSE "continue"

should_continue_or_end(consensus, round, maxr) ==
    IF consensus THEN "end"
    ELSE IF round >= maxr THEN "end"
    ELSE "continue"

\* routing_decision_node returns {}; the conditional edge that follows it
\* sends "end" to END of the sub-graph, after which the main graph runs
\* summary, and "continue" to fan_out
routing_decision_node ==
    /\ pc = "routing_decision"
    /\ decision' = should_continue_or_end(consensus_reached, round_count, max_rounds)
    /\ pc' = IF decision' = "end" THEN "summary" ELSE "fan_out"
    /\ UNCHANGED <<settings, expert_pool, blackboard, round_count, max_rounds,
                   consensus_reached, messages, writes, final_report, error,
                   runner_log, review_log>>

\* variant: the back-edge goes to the expert nodes without a marker message
fan_out_node_unmarked ==
    /\ pc = "fan_out"
    /\ writes' = [g \in DOMAIN writes |-> NoWrite]
    /\ pc' = "experts"
    /\ UNCHANGED <<settings, expert_pool, blackboard, round_count, max_rounds,
                   consensus_reached, messages, decision, final_report, error,
                   runner_log, review_log>>

\* variant: the marker node also clears the conflicts for the new round
fan_out_node_clearing ==
    /\ pc = "fan_out"
    /\ messages' = messages \o <<PMsg("fan_out", "", round_count, 0, 0, "")>>
    /\ blackboard' = [blackboard EXCEPT !.conflicts = EmptyMap]
    /\ writes' = [g \in DOMAIN writes |-> NoWrite]
    /\ pc' = "experts"
    /\ UNCHANGED <<settings, expert_pool, round_count, max_rounds,
                   consensus_reached, decision, final_report, error,
                   runner_log, review_log>>

\* fan_out_node emits the marker; its edges trigger every expert node
fan_out_node ==
    /\ pc = "fan_out"
    /\ messages' = messages \o <<PMsg("fan_out", "", round_count, 0, 0, "")>>
    /\ writes' = [g \in DOMAIN writes |-> NoWrite]
    /\ pc' = "experts"
    /\ UNCHANGED <<settings, expert_pool, blackboard, round_count, max_rounds,
                   consensus_reached, decision, final_report, error,
                   runner_log, review_log>>

(* ---------------------------------------------------------------------- *)
(* Summary node (p03summary_agent.py)                                      *)
(* ---------------------------------------------------------------------- *)

\* citation keys <<group_id, index>> of the groups with a published report
EvidenceKeys(reports, pool) ==
    UNION {{<<g, i>> : i \in 1..Len(pool[g].evidences)} : g \in (DOMAIN reports) \cap (DOMAIN pool)}

\* the evidences of the published groups in one list, in ascending group order
RECURSIVE AllEvidences(_, _, _)
AllEvidences(reports, pool, i) ==
    IF i > Len(AllGroups) THEN <<>>
    ELSE (IF AllGroups[i] \in (DOMAIN reports) \cap (DOMAIN pool)
          THEN pool[AllGroups[i]].evidences ELSE <<>>)
         \o AllEvidences(reports, pool, i + 1)

\* variant: a key's index read as a position in the list of all evidences
EvidenceMappingGlobal(reports, pool) ==
    [key \in EvidenceKeys(reports, pool) |-> AllEvidences(reports, pool, 1)[key[2]]]

\* evidence_mapping: the key is the text "group_id.index", here the pair
EvidenceMapping(reports, pool) ==
    [key \in EvidenceKeys(reports, pool) |-> pool[key[1]].evidences[key[2]]]

NoFinalReport == [produced |-> FALSE, reports |-> EmptyMap, evidence_mapping |-> EmptyMap]

summary_node ==
    /\ pc = "summary"
    /\ LET reports == blackboard.published_reports IN
         IF DOMAIN reports = {}
         THEN /\ error' = "ValueError"
              /\ pc' = "error"
              /\ UNCHANGED <<final_report, messages>>
         ELSE \E llm \in {"ok", "raise"} :
                IF llm = "raise"
                THEN /\ error' = "LLMError"
                     /\ pc' = "error"
                     /\ UNCHANGED <<final_report, messages>>
                ELSE /\ final_report' = [produced |-> TRUE, reports |-> reports,
                                         evidence_mapping |-> EvidenceMapping(reports, expert_pool)]
                     /\ messages' = messages \o <<PMsg("final_report", "", 0, 0, 0, "")>>
                     /\ pc' = "END"
                     /\ error' = error
    /\ UNCHANGED <<settings, expert_pool, blackboard, round_count, max_rounds,
                   consensus_reached, writes, decision, runner_log, review_log>>

(* ---------------------------------------------------------------------- *)
(* Reference resolution (p03summary_agent.py)                              *)
(* ---------------------------------------------------------------------- *)

\* A text is a sequence of tokens: a run of plain characters, a tag
\* <ref>group_id.index</ref>, a tag with other content (<ref>3</ref>), and,
\* in a resolved text, the heading of the evidence section and its lines.
PlainToken == [kind |-> "plain"]

RefToken(g, i) == [kind |-> "ref", g |-> g, i |-> i]

NumberRefToken == [kind |-> "ref_number"]

SectionHeader == [kind |-> "header"]

SectionLine(key, content) == [kind |-> "line", key |-> key, content |-> content]

\* ref_pattern.findall: the captured keys, in text order; only a tag whose
\* content is identifier "." digits matches
RECURSIVE FindAll(_)
FindAll(text) ==
    IF text = <<>> THEN <<>>
    ELSE (IF Head(text).kind = "ref" THEN <<<<Head(text).g, Head(text).i>>>> ELSE <<>>)
         \o FindAll(Tail(text))

RECURSIVE UniqueFrom(_, _)
UniqueFrom(matches, seen) ==
    IF matches = <<>> THEN <<>>
    ELSE IF Head(matches) \in seen THEN UniqueFrom(Tail(matches), seen)
    ELSE <<Head(matches)>> \o UniqueFrom(Tail(matches), seen \cup {Head(matches)})

\* variant: every match kept
UniqueKeysKeepAll(matches) == matches

\* the seen/ref_keys loop: first occurrences, in order
UniqueKeys(matches) == UniqueFrom(matches, {})

\* the lines of the keys found in the mapping; the other keys are logged
ExtractedEvidences(ref_keys, evidence_mapping) ==
    LET found == SelectSeq(ref_keys, LAMBDA k : k \in DOMAIN evidence_mapping)
    IN  [j \in 1..Len(found) |-> SectionLine(found[j], evidence_mapping[found[j]])]

resolve_evidence_references(text, evidence_mapping) ==
    IF text = <<>> \/ DOMAIN evidence_mapping = {} THEN text
    ELSE LET matches == FindAll(text) IN
         IF matches = <<>> THEN text
         ELSE LET extracted == ExtractedEvidences(UniqueKeys(matches), evidence_mapping) IN
              IF extracted = <<>> THEN text
              ELSE text \o <<SectionHeader>> \o extracted

\* summary_node, after the model call: the resolution runs when the mapping
\* is not empty
FinalReportText(text, evidence_mapping) ==
    IF DOMAIN evidence_mapping # {}
    THEN resolve_evidence_references(text, evidence_mapping)
    ELSE text

\* the groups whose reports reach the summary node in the states explored
RefGroups == GroupSet(2)

RefTokens ==
    {PlainToken, NumberRefToken}
        \cup {RefToken(g, i) : g \in RefGroups, i \in 1..(MaxEvidences + 1)}

Texts == UNION {[1..n -> RefTokens] : n \in 0..MaxTextLen}

\* the slot of a group whose run returned c evidences
SlotWithEvidences(g, c) ==
    [RunnerSuccess(g, InitialSlot(g)) EXCEPT
        !.evidences = [i \in 1..c |-> [g |-> g, n |-> 1, i |-> i]]]

\* first application, as summary_node makes it on the generated text
resolve_references ==
    /\ pc = "resolve"
    /\ resolved' = <<FinalReportText(report_text,
                        EvidenceMapping(blackboard.published_reports, expert_pool))>>
    /\ pc' = "resolve_again"
    /\ UNCHANGED <<settings, expert_pool, blackboard, round_count, max_rounds,
                   consensus_reached, messages, writes, decision, final_report,
                   error, runner_log, review_log, mainvars, report_text, all_reports_text,
                   patvars>>

\* the resolution applied to its own result
resolve_again ==
    /\ pc = "resolve_again"
    /\ resolved' = Append(resolved,
                      resolve_evidence_references(resolved[1],
                        EvidenceMapping(blackboard.published_reports, expert_pool)))
    /\ pc' = "resolved"
    /\ UNCHANGED <<settings, expert_pool, blackboard, round_count, max_rounds,
                   consensus_reached, messages, writes, decision, final_report,
                   error, runner_log, review_log, mainvars, report_text, all_reports_text,
                   patvars>>

(* ---------------------------------------------------------------------- *)
(* Rendering of the published reports (utils/report_utils.py,              *)
(* p03summary_agent.py)                                                    *)
(* ---------------------------------------------------------------------- *)

\* a tag <ref>N</ref> of an expert's report, N a run of decimal digits
NumberRef(n) == [kind |-> "ref_number", n |-> n]

\* the heading of the evidence details and one of its lines, "[N] content"
DetailHeader == [kind |-> "detail_header"]

DetailLine(n, content) == [kind |-> "detail_line", n |-> n, content |-> content]

\* ref_pattern.findall of process_expert_report_references: the numbers of
\* the tags <ref>digits</ref>, in text order
RECURSIVE FindAllNumbers(_)
FindAllNumbers(text) ==
    IF text = <<>> THEN <<>>
    ELSE (IF Head(text).kind = "ref_number" /\ "n" \in DOMAIN Head(text)
          THEN <<Head(text).n>> ELSE <<>>)
         \o FindAllNumbers(Tail(text))

RECURSIVE SortedSeq(_)
SortedSeq(S) ==
    IF S = {} THEN <<>>
    ELSE LET least == CHOOSE x \in S : \A y \in S : x <= y
         IN  <<least>> \o SortedSeq(S \ {least})

\* variant: the ids taken as they were found
RefIdsAsFound(matches) == matches

\* sorted(list(set(map(int, matches))))
RefIds(matches) == SortedSeq({matches[j] : j \in 1..Len(matches)})

\* the lines of the ids that are 1-based indexes of the evidences
ExtractedDetails(ref_ids, evidences) ==
    LET valid == SelectSeq(ref_ids, LAMBDA n : 1 <= n /\ n <= Len(evidences))
    IN  [j \in 1..Len(valid) |-> DetailLine(valid[j], evidences[valid[j]])]

process_expert_report_references(text, evidences) ==
    IF text = <<>> \/ evidences = <<>> THEN text
    ELSE LET matches == FindAllNumbers(text) IN
         IF matches = <<>> THEN text
         ELSE LET extracted == ExtractedDetails(RefIds(matches), evidences) IN
              IF extracted = <<>> THEN text
              ELSE text \o <<DetailHeader>> \o extracted

\* _format_expert_reports: the text of every published report as it is put
\* under the heading that names its group
format_expert_reports(reports, pool) ==
    [g \in DOMAIN reports |->
        LET evidences == IF g \in DOMAIN pool THEN pool[g].evidences ELSE <<>>
        IN  IF evidences # <<>>
            THEN process_expert_report_references(reports[g], evidences)
            ELSE reports[g]]

ReportTokens == {PlainToken} \cup {NumberRef(n) : n \in 0..(MaxEvidences + 1)}

\* the report texts explored: every text up to MaxTextLen tokens for the
\* first group, the texts of at most one token for the second
ReportTexts(g) ==
    UNION {[1..n -> ReportTokens] : n \in 0..(IF g = AllGroups[1] THEN MaxTextLen ELSE 1)}

\* the texts explored for group g, when it is among the published ones
PublishedTexts(g, published) == IF g \in published THEN ReportTexts(g) ELSE {<<>>}

\* step 2 of summary_node on the published reports
render_reports ==
    /\ pc = "render"
    /\ all_reports_text' = format_expert_reports(blackboard.published_reports, expert_pool)
    /\ pc' = "rendered"
    /\ UNCHANGED <<settings, expert_pool, blackboard, round_count, max_rounds,
                   consensus_reached, messages, writes, decision, final_report,
                   error, runner_log, review_log, mainvars, report_text, resolved,
                   patvars>>

(* ---------------------------------------------------------------------- *)
(* Patient record tools (tools/patientinfo.py)                             *)
(* ---------------------------------------------------------------------- *)

\* the list fields of patient_info: of the seven the tools always create,
\* one; and one that exists only once a payload has named it
StandardBuckets == {"symptoms"}

Buckets == StandardBuckets \cup {"medical_history"}

BucketOrder == <<"symptoms", "medical_history">>

\* record ids: generate_short_uuid draws from 32^4 words, more than a list
\* has records; here as many ids as the record holds records at most
Ids == 1..MaxRecords

\* a payload record without "id", or with one that is falsy
NoId == 0

\* a key the dict does not have
Missing == "missing"

\* the records a payload can carry: an id or none, a field or none
PayloadRecords == [id : {NoId} \cup Ids, name : {Missing, "a"}]

\* generate_short_uuid: any id that is not in existing_ids
generate_short_uuid(existing_ids) == Ids \ existing_ids

\* branch B: dict(record) with the id and the time stamp set
NewRecord(record, rec_id) == [id |-> rec_id, name |-> record.name, t_time |-> "now"]

\* variant: the stored record replaced by the payload record
UpdateRecordReplacing(existing, record) ==
    [id |-> record.id, name |-> record.name, t_time |-> "now"]

\* branch A: existing.update(record), then the time stamp
UpdateRecord(existing, record) ==
    [id |-> record.id,
     name |-> IF record.name # Missing THEN record.name ELSE existing.name,
     t_time |-> "now"]

\* index_by_id[rec_id]: of the records the list had when the call began
\* (the first n), the last one with that id
IndexById(list, n, rec_id) ==
    CHOOSE i \in 1..n :
        /\ list[i].id = rec_id
        /\ \A j \in (i + 1)..n : list[j].id # rec_id

\* the loop over the records of one bucket: the lists it can end with, one
\* for every choice of generated ids.  index_ids are the keys of
\* index_by_id, which the loop does not extend.
RECURSIVE UpsertRecords(_, _, _, _, _)
UpsertRecords(list, n, index_ids, existing_ids, records) ==
    IF records = <<>> THEN {list}
    ELSE LET record == Head(records)
             rec_id == record.id
         IN  IF rec_id # NoId /\ rec_id \in index_ids
             THEN LET i == IndexById(list, n, rec_id) IN
                  UpsertRecords([list EXCEPT ![i] = UpdateRecord(list[i], record)],
                                n, index_ids, existing_ids, Tail(records))
             ELSE IF rec_id # NoId
             THEN UpsertRecords(Append(list, NewRecord(record, rec_id)),
                                n, index_ids, existing_ids \cup {rec_id}, Tail(records))
             ELSE UNION {UpsertRecords(Append(list, NewRecord(record, new_id)),
                                       n, index_ids, existing_ids \cup {new_id},
                                       Tail(records)) :
                            new_id \in generate_short_uuid(existing_ids)}

\* the fields every tool makes sure of before it works
EnsureFields(info) ==
    [b \in (DOMAIN info) \cup StandardBuckets |-> IF b \in DOMAIN info THEN info[b] ELSE <<>>]

\* the loop over payload.items(), from the i-th bucket on
RECURSIVE UpsertBuckets(_, _, _)
UpsertBuckets(info, payload, i) ==
    IF i > Len(BucketOrder) THEN {info}
    ELSE LET bucket == BucketOrder[i] IN
         IF bucket \notin DOMAIN payload THEN UpsertBuckets(info, payload, i + 1)
         ELSE LET existing_list == IF bucket \in DOMAIN info THEN info[bucket] ELSE <<>>
                  ids == {existing_list[j].id : j \in 1..Len(existing_list)}
                  with(list) == [b \in (DOMAIN info) \cup {bucket} |->
                                    IF b = bucket THEN list ELSE info[b]]
              IN  UNION {UpsertBuckets(with(list), payload, i + 1) :
                            list \in UpsertRecords(existing_list, Len(existing_list),
                                                   ids, ids, payload[bucket])}

\* upsert_patient_facts without its message: the Command it can return and
\* the state object it was given as that object is when the tool returns;
\* the tool works on a deep copy
upsert_patient_facts(state, payload) ==
    {[update |-> new_info, arg |-> state] :
        new_info \in UpsertBuckets(EnsureFields(state), payload, 1)}

\* delete_patient_facts for a payload naming one bucket
delete_patient_facts(state, bucket, id_list) ==
    LET info == EnsureFields(state)
        existing_list == IF bucket \in DOMAIN info THEN info[bucket] ELSE <<>>
        kept == SelectSeq(existing_list, LAMBDA r : r.id \notin id_list)
    IN  [update |-> [b \in (DOMAIN info) \cup {bucket} |->
                        IF b = bucket THEN kept ELSE info[b]],
         arg |-> state]

\* tool_call before the first call
NoToolCall == [tool |-> "none", payload |-> EmptyMap, before |-> EmptyMap, arg |-> EmptyMap]

\* upsert payloads: one bucket with up to MaxPayload records, or each of
\* the two buckets with one record
UpsertPayloads ==
    {[b \in {bucket} |-> records] :
        bucket \in Buckets,
        records \in UNION {[1..n -> PayloadRecords] : n \in 1..MaxPayload}}
    \cup [Buckets -> {<<r>> : r \in PayloadRecords}]

\* the list of bucket b, empty when patient_info has no such bucket
ListOf(info, b) == IF b \in DOMAIN info THEN info[b] ELSE <<>>

IdsOf(list) == {list[i].id : i \in 1..Len(list)}

\* the payload records that take branch B
AppendCount(info, payload) ==
    Cardinality({bj \in UNION {{<<b, j>> : j \in 1..Len(payload[b])} : b \in DOMAIN payload} :
                    payload[bj[1]][bj[2]].id \notin IdsOf(ListOf(info, bj[1]))})

RecordCount(info) ==
    LET RECURSIVE Sum(_)
        Sum(i) == IF i > Len(BucketOrder) THEN 0
                  ELSE (IF BucketOrder[i] \in DOMAIN info
                        THEN Len(info[BucketOrder[i]]) ELSE 0) + Sum(i + 1)
    IN  Sum(1)

\* the agent calls upsert_patient_facts; the tool node writes the returned
\* patient_info to the channel
upsert_step ==
    /\ pc = "patient_tools"
    /\ \E payload \in UpsertPayloads :
         /\ RecordCount(patient_info) + AppendCount(patient_info, payload) <= MaxRecords
         /\ \E command \in upsert_patient_facts(patient_info, payload) :
               /\ patient_info' = command.update
               /\ tool_call' = [tool |-> "upsert", payload |-> payload,
                                before |-> patient_info, arg |-> command.arg]
    /\ pc' = "tool_returned"
    /\ UNCHANGED <<settings, expert_pool, blackboard, round_count, max_rounds,
                   consensus_reached, messages, writes, decision, final_report,
                   error, runner_log, review_log, mainvars, refvars>>

\* the agent calls delete_patient_facts
delete_step ==
    /\ pc = "patient_tools"
    /\ \E bucket \in Buckets, id_list \in (SUBSET Ids) \ {{}} :
         LET command == delete_patient_facts(patient_info, bucket, id_list) IN
            /\ patient_info' = command.update
            /\ tool_call' = [tool |-> "delete", payload |-> [b \in {bucket} |-> id_list],
                             before |-> patient_info, arg |-> command.arg]
    /\ pc' = "tool_returned"
    /\ UNCHANGED <<settings, expert_pool, blackboard, round_count, max_rounds,
                   consensus_reached, messages, writes, decision, final_report,
                   error, runner_log, review_log, mainvars, refvars>>

\* the agent reads the tool message and goes on
agent_continues ==
    /\ pc = "tool_returned"
    /\ tool_call' = NoToolCall
    /\ pc' = "patient_tools"
    /\ UNCHANGED <<settings, expert_pool, blackboard, round_count, max_rounds,
                   consensus_reached, messages, writes, decision, final_report,
                   error, runner_log, review_log, mainvars, refvars, patient_info>>

(* ---------------------------------------------------------------------- *)
(* Front of the main graph (graph.py, p01pre_diagnosis_agent.py)           *)
(* ---------------------------------------------------------------------- *)

\* dict.get(key, default)
Get(state, key, default) == IF key \in DOMAIN state THEN state[key] ELSE default

\* the conditional edge after prediagnosis, on the state it is given
route_after_prediagnosis(state) ==
    IF Get(state, "start_diagnosis", FALSE) THEN "prepare_mdt" ELSE "__end__"

\* prediagnode: the inner agent answers, calls trigger_deep_diagnosis and
\* answers, or raises; the node returns the last AI message of the result
\* (nothing when the result holds none), to which a hint is added when the
\* switch was set in this call, and start_diagnosis as the agent left it.
\* The conditional edge that follows is part of the step.
prediagnosis_node ==
    /\ pc = "prediagnosis"
    /\ \E outcome \in {"reply", "trigger", "raise"}, final_ai_message \in BOOLEAN :
         IF outcome = "raise"
         THEN /\ pc' = "error"
              /\ error' = "PreDiagnosisError"
              /\ UNCHANGED <<start_diagnosis, messages>>
         ELSE LET start == start_diagnosis \/ outcome = "trigger" IN
              /\ start_diagnosis' = start
              /\ messages' = messages \o
                    (IF final_ai_message
                     THEN <<PMsg("prediagnosis", "", 0, 0, 0,
                                 IF start /\ ~start_diagnosis THEN "jump_hint" ELSE "")>>
                     ELSE <<>>)
              /\ pc' = (IF route_after_prediagnosis([start_diagnosis |-> start]) = "prepare_mdt"
                        THEN "prepare_mdt" ELSE "END")
              /\ error' = error
    /\ main_log' = Append(main_log, "prediagnosis")
    /\ UNCHANGED <<settings, expert_pool, blackboard, round_count, max_rounds,
                   consensus_reached, writes, decision, final_report,
                   runner_log, review_log, summary_with_dialogue>>

\* the text prepare_for_mdt_node falls back to: one line per user or
\* assistant message of the dialogue, joined; empty when there is none
FallbackText(msgs) ==
    IF \E i \in 1..Len(msgs) : msgs[i].kind # "system" THEN "fallback" ELSE ""

\* prepare_for_mdt_node: nothing is returned when a summary exists or there
\* is no dialogue; otherwise the summary is the model's answer or, when the
\* model call raises, the concatenated dialogue
prepare_for_mdt_node ==
    /\ pc = "prepare_mdt"
    /\ IF summary_with_dialogue # "" \/ messages = <<>>
       THEN UNCHANGED <<summary_with_dialogue, messages>>
       ELSE \E llm \in {"ok", "raise"} :
              /\ summary_with_dialogue' =
                    (IF llm = "ok" THEN "summary" ELSE FallbackText(messages))
              /\ messages' = messages \o
                    <<PMsg("prepare_mdt", "", 0, 0, 0, IF llm = "ok" THEN "" ELSE "failed")>>
    /\ pc' = "triage_to_mdt_node"
    /\ main_log' = Append(main_log, "prepare_mdt")
    /\ UNCHANGED <<settings, expert_pool, blackboard, round_count, max_rounds,
                   consensus_reached, writes, decision, final_report, error,
                   runner_log, review_log, start_diagnosis>>

(* ---------------------------------------------------------------------- *)
(* Specification                                                           *)
(* ---------------------------------------------------------------------- *)

\* the reference resolution and the patient tools are not in use
RefIdle == report_text = <<>> /\ resolved = <<>> /\ all_reports_text = <<>>

PatIdle == patient_info = EmptyMap /\ tool_call = NoToolCall

\* the state in which the MDT sub-graph is entered: the front of the main
\* graph has run and start_diagnosis is set
Init ==
    /\ settings \in [groups : {GroupSet(n) : n \in 1..Len(AllGroups)},
                     max_rounds : 1..MaxRoundsCfg]
    /\ pc = "triage_to_mdt_node"
    /\ expert_pool = EmptyMap
    /\ blackboard = [published_reports |-> EmptyMap, conflicts |-> EmptyMap]
    /\ round_count = 0
    /\ max_rounds = 0
    /\ consensus_reached = FALSE
    /\ messages = <<>>
    /\ writes = EmptyMap
    /\ decision = None
    /\ final_report = NoFinalReport
    /\ error = None
    /\ runner_log = <<>>
    /\ review_log = <<>>
    /\ start_diagnosis = TRUE
    /\ summary_with_dialogue = "summary"
    /\ main_log = <<"prediagnosis", "prepare_mdt">>
    /\ RefIdle
    /\ PatIdle

\* mdt_diagnosis is one node of the main graph: it has run once its entry
\* node has; summary is the node that follows it
Next ==
    \/ /\ triage_to_mdt_node
       /\ main_log' = Append(main_log, "mdt_diagnosis")
       /\ UNCHANGED <<start_diagnosis, summary_with_dialogue, refvars, patvars>>
    \/ /\ \E g \in settings.groups : deep_export_node(g)
       /\ UNCHANGED <<mainvars, refvars, patvars>>
    \/ /\ experts_join
       /\ UNCHANGED <<mainvars, refvars, patvars>>
    \/ /\ expert_reviewer_node
       /\ UNCHANGED <<mainvars, refvars, patvars>>
    \/ /\ routing_decision_node
       /\ UNCHANGED <<mainvars, refvars, patvars>>
    \/ /\ fan_out_node
       /\ UNCHANGED <<mainvars, refvars, patvars>>
    \/ /\ summary_node
       /\ main_log' = Append(main_log, "summary")
       /\ UNCHANGED <<start_diagnosis, summary_with_dialogue, refvars, patvars>>

Spec == Init /\ [][Next]_vars

\* every node returns: the scheduler always runs the next step
FairSpec == Spec /\ WF_vars(Next)

\* one invocation of the main graph, from START: the state comes from the
\* caller or from the checkpoint of the previous invocation of the thread
MainInit ==
    /\ settings \in [groups : {GroupSet(n) : n \in 1..Len(AllGroups)},
                     max_rounds : 1..MaxRoundsCfg]
    /\ pc = "prediagnosis"
    /\ expert_pool = EmptyMap
    /\ blackboard = [published_reports |-> EmptyMap, conflicts |-> EmptyMap]
    /\ round_count = 0
    /\ max_rounds = 0
    /\ consensus_reached = FALSE
    /\ messages \in {<<>>, <<PMsg("human", "", 0, 0, 0, "")>>,
                      <<PMsg("system", "", 0, 0, 0, "")>>}
    /\ writes = EmptyMap
    /\ decision = None
    /\ final_report = NoFinalReport
    /\ error = None
    /\ runner_log = <<>>
    /\ review_log = <<>>
    /\ start_diagnosis \in BOOLEAN
    /\ summary_with_dialogue \in {"", "summary"}
    /\ main_log = <<>>
    /\ RefIdle
    /\ PatIdle

MainNext ==
    \/ /\ prediagnosis_node
       /\ UNCHANGED <<refvars, patvars>>
    \/ /\ prepare_for_mdt_node
       /\ UNCHANGED <<refvars, patvars>>
    \/ Next

MainSpec == MainInit /\ [][MainNext]_vars

\* the reference resolution on every generated text up to MaxTextLen tokens,
\* for every set of published groups and every evidence count
RefInit ==
    /\ settings = [groups |-> RefGroups, max_rounds |-> 1]
    /\ pc = "resolve"
    /\ \E counts \in [RefGroups -> 0..MaxEvidences] :
          expert_pool = [g \in RefGroups |-> SlotWithEvidences(g, counts[g])]
    /\ \E published \in (SUBSET RefGroups) \ {{}} :
          blackboard = [published_reports |-> [g \in published |-> Report("report", g, 1)],
                        conflicts |-> EmptyMap]
    /\ round_count = InitialRound + 1
    /\ max_rounds = 1
    /\ consensus_reached = FALSE
    /\ messages = <<>>
    /\ writes = EmptyMap
    /\ decision = "end"
    /\ final_report = NoFinalReport
    /\ error = None
    /\ runner_log = <<>>
    /\ review_log = <<>>
    /\ start_diagnosis = TRUE
    /\ summary_with_dialogue = "summary"
    /\ main_log = <<"prediagnosis", "prepare_mdt", "mdt_diagnosis">>
    /\ report_text \in Texts
    /\ resolved = <<>>
    /\ all_reports_text = <<>>
    /\ PatIdle

RefNext ==
    \/ resolve_references
    \/ resolve_again

RefSpec == RefInit /\ [][RefNext]_vars

\* the front-end agent at work on a patient record: the state carries no
\* patient_info yet or the one init_patient_info builds
PatInit ==
    /\ settings = [groups |-> GroupSet(1), max_rounds |-> 1]
    /\ pc = "patient_tools"
    /\ expert_pool = EmptyMap
    /\ blackboard = [published_reports |-> EmptyMap, conflicts |-> EmptyMap]
    /\ round_count = 0
    /\ max_rounds = 0
    /\ consensus_reached = FALSE
    /\ messages = <<>>
    /\ writes = EmptyMap
    /\ decision = None
    /\ final_report = NoFinalReport
    /\ error = None
    /\ runner_log = <<>>
    /\ review_log = <<>>
    /\ start_diagnosis = FALSE
    /\ summary_with_dialogue = ""
    /\ main_log = <<>>
    /\ RefIdle
    /\ patient_info \in {EmptyMap, [b \in StandardBuckets |-> <<>>]}
    /\ tool_call = NoToolCall

PatNext ==
    \/ upsert_step
    \/ delete_step
    \/ agent_continues

PatSpec == PatInit /\ [][PatNext]_vars

\* a slot as an earlier run of the graph on the same thread leaves it: reviewed
\* and satisfied after one run, or errored in its run
LeftoverSlot(g, kind) ==
    IF kind = "satisfied"
    THEN ApplyResult(ReviewerMessages(RunnerSuccess(g, InitialSlot(g)), InitialRound),
                     ReviewResult([kind |-> "object", is_satisfied |-> TRUE,
                                   reinvestigate_reason |-> "reason"]))
    ELSE RunnerFailure(g, InitialSlot(g))

\* the MDT graph entered with the state an earlier run left in the channels
\* (the earlier run ended in its summary node without a final report): every
\* group's slot, the blackboard, the counters and the progress stream
RerunInit ==
    /\ settings \in [groups : {GroupSet(n) : n \in 1..Len(AllGroups)},
                     max_rounds : 1..MaxRoundsCfg]
    /\ pc = "triage_to_mdt_node"
    /\ \E kinds \in [settings.groups -> {"satisfied", "errored"}] :
         /\ expert_pool = [g \in settings.groups |-> LeftoverSlot(g, kinds[g])]
         /\ \E conflict \in BOOLEAN :
              blackboard =
                [published_reports |->
                    [g \in {h \in settings.groups : kinds[h] = "satisfied"} |->
                        Report("report", g, 1)],
                 conflicts |-> IF conflict THEN [g \in settings.groups |-> "reason"]
                               ELSE EmptyMap]
    /\ round_count \in {InitialRound + 1, settings.max_rounds + 1}
    /\ max_rounds = settings.max_rounds
    /\ consensus_reached \in BOOLEAN
    /\ messages = <<PMsg("review", "", InitialRound, 0, 0, "")>>
    /\ writes = EmptyMap
    /\ decision = None
    /\ final_report = NoFinalReport
    /\ error = None
    /\ runner_log = <<>>
    /\ review_log = <<>>
    /\ start_diagnosis = TRUE
    /\ summary_with_dialogue = "summary"
    /\ main_log = <<"prediagnosis", "prepare_mdt">>
    /\ RefIdle
    /\ PatIdle

RerunSpec == RerunInit /\ [][Next]_vars

\* the rendering on published reports of every text explored, for every set
\* of published groups and every evidence count
RenderInit ==
    /\ settings = [groups |-> RefGroups, max_rounds |-> 1]
    /\ pc = "render"
    /\ \E counts \in [RefGroups -> 0..MaxEvidences] :
          expert_pool = [g \in RefGroups |-> SlotWithEvidences(g, counts[g])]
    /\ \E published \in (SUBSET RefGroups) \ {{}} :
          \E first \in PublishedTexts(AllGroups[1], published),
             second \in PublishedTexts(AllGroups[2], published) :
             blackboard = [published_reports |->
                              [g \in published |-> IF g = AllGroups[1] THEN first ELSE second],
                           conflicts |-> EmptyMap]
    /\ round_count = InitialRound + 1
    /\ max_rounds = 1
    /\ consensus_reached = FALSE
    /\ messages = <<>>
    /\ writes = EmptyMap
    /\ decision = "end"
    /\ final_report = NoFinalReport
    /\ error = None
    /\ runner_log = <<>>
    /\ review_log = <<>>
    /\ start_diagnosis = TRUE
    /\ summary_with_dialogue = "summary"
    /\ main_log = <<"prediagnosis", "prepare_mdt", "mdt_diagnosis">>
    /\ RefIdle
    /\ PatIdle

RenderNext == render_reports

RenderSpec == RenderInit /\ [][RenderNext]_vars

(* ---------------------------------------------------------------------- *)
(* History read by the properties                                          *)
(* ---------------------------------------------------------------------- *)

\* fan-outs begun so far: the completed ones and the one that is running
FanOutsStarted == Len(runner_log) + (IF pc = "experts" THEN 1 ELSE 0)

Reviews == Len(review_log)

\* the router has taken its terminal route
MDTEnded == decision = "end"

\* groups whose inner agent raised in some fan-out
RunnerRaisers == {g \in settings.groups : \E i \in 1..Len(runner_log) : runner_log[i][g] = "raise"}

\* groups one of whose verdict calls gave no verdict
VerdictFailures ==
    {g \in settings.groups : \E i \in 1..Len(review_log) :
        g \in DOMAIN review_log[i] /\ review_log[i][g].kind # "object"}

\* group g received a satisfied verdict in pass i
SatisfiedAt(g, i) ==
    /\ g \in DOMAIN review_log[i]
    /\ review_log[i][g].kind = "object"
    /\ review_log[i][g].is_satisfied

(* ---------------------------------------------------------------------- *)
(* Properties                                                              *)
(* ---------------------------------------------------------------------- *)

\* C1: for every max_rounds >= 1 and whatever the experts and the verdict
\* calls do, the loop runs at most max_rounds fan-out/review cycles and does
\* not stop anywhere before the router has taken its terminal route.
C1_ReachesTerminalRoute ==
    /\ FanOutsStarted <= (IF pc = "triage_to_mdt_node" THEN settings.max_rounds ELSE max_rounds)
    /\ Reviews <= FanOutsStarted
    /\ MDTEnded \/ ENABLED Next

\* C2: after a review pass the router answers "end" when consensus_reached
\* holds, "end" when round_count >= max_rounds, "continue" otherwise; the
\* answer is a function of these three fields alone, and "continue" leads to
\* the fan-out.
C2_RouterDecision ==
    pc \in {"fan_out", "summary", "END"} =>
        /\ decision = (IF consensus_reached \/ round_count >= max_rounds
                       THEN "end" ELSE "continue")
        /\ (pc = "fan_out") = (decision = "continue")

C2_Witness == pc = "summary" /\ ~consensus_reached /\ round_count >= max_rounds

\* C3: in a terminal state of the loop with consensus_reached and at least one
\* expert without error, every expert without error is satisfied.
C3_ConsensusCorrect ==
    (MDTEnded /\ consensus_reached /\ ActiveExperts(expert_pool) # {}) =>
        \A g \in ActiveExperts(expert_pool) : expert_pool[g].is_satisfied

C3_Witness ==
    /\ MDTEnded /\ consensus_reached
    /\ ActiveExperts(expert_pool) # {}
    /\ ActiveExperts(expert_pool) # DOMAIN expert_pool
    /\ Reviews >= 2

\* C4: in every step, for every group, the run counter of the slot does not
\* decrease and has_error does not go from true to false.
C4_SlotMonotone ==
    [][\A g \in (DOMAIN expert_pool) \cap (DOMAIN expert_pool') :
          /\ expert_pool'[g].times_deep_diagnosis >= expert_pool[g].times_deep_diagnosis
          /\ expert_pool[g].has_error => expert_pool'[g].has_error]_vars

\* C5: during a fan-out the node of group g returns a value for key g of
\* expert_pool only, and a progress message only when it failed; nothing of
\* the shared state changes while nodes are running; when the fan-out ends
\* every slot is what its own node returned or, if that node skipped, what
\* it was before.
C5_Isolation ==
    [][pc = "experts" =>
        /\ \A g \in DOMAIN writes' :
              /\ DOMAIN writes'[g].expert_pool \subseteq {g}
              /\ Len(writes'[g].messages) = (IF writes'[g].status = "raise" THEN 1 ELSE 0)
        /\ IF pc' = "experts"
           THEN expert_pool' = expert_pool /\ messages' = messages
           ELSE \A h \in DOMAIN expert_pool' :
                    expert_pool'[h] = IF h \in DOMAIN writes[h].expert_pool
                                      THEN writes[h].expert_pool[h]
                                      ELSE expert_pool[h]]_vars

C5_Witness ==
    /\ pc = "expert_review"
    /\ \E g, h, k \in DOMAIN writes :
          writes[g].status = "ok" /\ writes[h].status = "raise" /\ writes[k].status = "skip"

C7_RunsExactlyActive ==
    pc = "experts" =>
        \A g \in DOMAIN writes :
            writes[g].status # "pending" =>
                /\ (writes[g].status \in {"ok", "raise"})
                      = (~expert_pool[g].has_error /\ ~expert_pool[g].is_satisfied)
                /\ writes[g].status = "skip" => DOMAIN writes[g].expert_pool = {}

\* the first review pass after which every configured group has received a
\* satisfied verdict, 0 if there is none yet
FirstAllSatisfied ==
    LET ok(i) == \A g \in settings.groups : \E j \in 1..i : SatisfiedAt(g, j)
    IN  IF \E i \in 1..Len(review_log) : ok(i)
        THEN CHOOSE i \in 1..Len(review_log) : ok(i) /\ \A j \in 1..(i - 1) : ~ok(j)
        ELSE 0

\* C8: if no expert errors and all experts are first satisfied together at
\* review pass k < max_rounds, then exactly k fan-outs and k review passes
\* execute, and the run ends with consensus_reached = true and
\* round_count = k + 1.
C8_ConsensusAtK ==
    LET k == FirstAllSatisfied IN
    (k > 0 /\ k < max_rounds /\ RunnerRaisers = {} /\ VerdictFailures = {}) =>
        /\ FanOutsStarted = k
        /\ Reviews = k
        /\ consensus_reached
        /\ round_count = k + 1
        /\ pc \in {"routing_decision", "summary", "END", "error"}
        /\ pc # "routing_decision" => MDTEnded

C8_Witness ==
    /\ FirstAllSatisfied = 2
    /\ RunnerRaisers = {} /\ VerdictFailures = {}
    /\ pc = "END"
    /\ Cardinality(settings.groups) >= 2

\* every verdict call of every review pass so far returned "unsatisfied"
AllVerdictsUnsatisfied ==
    \A i \in 1..Len(review_log) :
        /\ DOMAIN review_log[i] = settings.groups
        /\ \A g \in settings.groups :
              review_log[i][g].kind = "object" /\ ~review_log[i][g].is_satisfied

\* C9: with max_rounds = 3 and three experts that are unsatisfied at every
\* review and never fail, the run ends after exactly three rounds (three
\* fan-outs, three review passes) with consensus_reached = false and no
\* expert marked errored, and the summarizer runs.
C9_BudgetExhaustion ==
    (/\ MDTEnded
     /\ max_rounds = 3
     /\ Cardinality(settings.groups) = 3
     /\ RunnerRaisers = {}
     /\ AllVerdictsUnsatisfied) =>
        /\ Len(runner_log) = 3
        /\ Reviews = 3
        /\ ~consensus_reached
        /\ \A g \in DOMAIN expert_pool : ~expert_pool[g].has_error
        /\ pc \in {"summary", "END", "error"}

\* C10: after every review pass, for every expert without error, the report
\* on the blackboard is that expert's current report.
C10_BlackboardLatest ==
    pc = "routing_decision" =>
        \A g \in ActiveExperts(expert_pool) :
            /\ g \in DOMAIN blackboard.published_reports
            /\ blackboard.published_reports[g] = expert_pool[g].report

\* every configured group's inner agent raised in the first fan-out
AllRaisedInFirstFanOut ==
    /\ Len(runner_log) >= 1
    /\ \A g \in settings.groups : runner_log[1][g] = "raise"

\* C11: if every expert's inner agent raises in the first fan-out, the first
\* review pass makes no verdict call and publishes nothing, sets
\* consensus_reached, the router ends without a second fan-out, and the
\* summary node fails with the no-reports error, final_report not produced.
C11_AllFailFirstRound ==
    AllRaisedInFirstFanOut =>
        /\ Len(runner_log) = 1
        /\ pc \in {"expert_review", "routing_decision", "summary", "error"}
        /\ pc # "error" => ENABLED Next
        /\ pc # "expert_review" =>
              /\ Reviews = 1
              /\ DOMAIN review_log[1] = {}
              /\ DOMAIN blackboard.published_reports = {}
              /\ consensus_reached
              /\ round_count = InitialRound + 1
        /\ pc \in {"summary", "error"} => decision = "end"
        /\ pc = "error" => error = "ValueError"
        /\ ~final_report.produced

C11_Witness ==
    /\ AllRaisedInFirstFanOut
    /\ settings.groups = GroupSet(3)
    /\ pc = "error"
    /\ error = "ValueError"

\* the run is over: summary_node returned or an exception left the graph
Terminated == pc \in {"END", "error"}

\* every slot of the pool is marked has_error
AllErrored == DOMAIN expert_pool # {} /\ \A g \in DOMAIN expert_pool : expert_pool[g].has_error

\* C12: in every run that ends, the summary node reached, with every expert
\* marked has_error, in whichever fan-out or review pass the errors occurred,
\* the summary node fails with the no-reports error and final_report is not
\* produced.
C12_AllErroredNoReport ==
    (Terminated /\ MDTEnded /\ AllErrored) =>
        /\ error = "ValueError"
        /\ ~final_report.produced

\* group prefixes of the citation keys given to the summarizer
CitedGroups == {key[1] : key \in DOMAIN final_report.evidence_mapping}

\* C13: in every run that ends with at least one expert not marked has_error
\* (the summarizer's own model call not failing), the summary is produced and
\* the groups whose report and evidence the summarizer is given are exactly
\* the experts with has_error = false at the end; an expert that ended with
\* has_error = true contributes no report and no citation key.
C13_SummaryOverSurvivors ==
    (Terminated /\ MDTEnded /\ error # "LLMError" /\ ActiveExperts(expert_pool) # {}) =>
        /\ final_report.produced
        /\ DOMAIN final_report.reports = ActiveExperts(expert_pool)
        /\ CitedGroups = ActiveExperts(expert_pool)

\* C17: in a review pass, whatever one expert's verdict call comes to (the
\* model call raises, the answer cannot be parsed, or it parses to a value
\* that is no JSON object), only the slots of the experts whose call failed
\* become has_error = true, the verdicts of the other reviewed experts are
\* recorded in their slots, and the pass completes: round_count is
\* incremented and one progress message is emitted.
C17_VerdictFailureIsolated ==
    [][pc = "expert_review" =>
        LET verdicts == review_log'[Len(review_log')] IN
        /\ pc' = "routing_decision"
        /\ round_count' = round_count + 1
        /\ Len(messages') = Len(messages) + 1
        /\ messages'[Len(messages')].kind = "review"
        /\ \A g \in DOMAIN verdicts :
              /\ expert_pool'[g].has_error = (verdicts[g].kind # "object")
              /\ verdicts[g].kind = "object" =>
                    /\ expert_pool'[g].is_satisfied = verdicts[g].is_satisfied
                    /\ expert_pool'[g].reinvestigate_reason = verdicts[g].reinvestigate_reason
        /\ \A g \in (DOMAIN expert_pool) \ (DOMAIN verdicts) :
              expert_pool'[g].has_error = expert_pool[g].has_error]_vars

\* the main-graph nodes that have run, without the front-end
RanAfterFrontEnd == SelectSeq(main_log, LAMBDA n : n # "prediagnosis")

\* C18: in every invocation of the main graph, if start_diagnosis is true
\* after the front-end then prepare_mdt, the MDT sub-graph and summary run in
\* that order, each exactly once, and summary starts only after the MDT
\* router has taken its terminal route; if start_diagnosis is false, none of
\* the three runs and final_report is not written.
C18_MainGraphOrder ==
    /\ \E n \in 0..3 :
          RanAfterFrontEnd = SubSeq(<<"prepare_mdt", "mdt_diagnosis", "summary">>, 1, n)
    /\ pc = "summary" => MDTEnded
    /\ (Len(RanAfterFrontEnd) = 3) => MDTEnded
    /\ (Terminated /\ error # "PreDiagnosisError" /\ start_diagnosis) =>
          Len(RanAfterFrontEnd) = 3
    /\ (main_log # <<>> /\ error # "PreDiagnosisError" /\ ~start_diagnosis) =>
          /\ pc = "END"
          /\ RanAfterFrontEnd = <<>>
          /\ ~final_report.produced

\* the namespace the summary node builds in the current state
Namespace == EvidenceMapping(blackboard.published_reports, expert_pool)

\* the keys of the tags <ref>group_id.index</ref> of the generated text
ReferencedKeys ==
    {<<report_text[j].g, report_text[j].i>> :
        j \in {n \in 1..Len(report_text) : report_text[n].kind = "ref"}}

\* position of the first tag with key k in the generated text
FirstReference(k) ==
    CHOOSE j \in 1..Len(report_text) :
        /\ report_text[j].kind = "ref" /\ <<report_text[j].g, report_text[j].i>> = k
        /\ \A n \in 1..(j - 1) :
              ~(report_text[n].kind = "ref" /\ <<report_text[n].g, report_text[n].i>> = k)

\* what the first application appended to the generated text
CitedSection == SubSeq(resolved[1], Len(report_text) + 1, Len(resolved[1]))

\* the positions of the lines of key k in the appended section
LinesOf(k) ==
    {j \in 1..Len(CitedSection) : CitedSection[j].kind = "line" /\ CitedSection[j].key = k}

\* C14: for any generated text and namespace, the resolved text is the
\* generated text, unchanged, followed by a section in which every referenced
\* key of the namespace has exactly one line, however often it is referenced,
\* the lines standing in order of first reference, and in which no referenced
\* key absent from the namespace has a line (nothing is appended when no
\* referenced key is in the namespace).
C14_ReferenceClosure ==
    pc # "resolve" =>
        /\ Len(resolved[1]) >= Len(report_text)
        /\ SubSeq(resolved[1], 1, Len(report_text)) = report_text
        /\ \A k \in ReferencedKeys \cap DOMAIN Namespace : Cardinality(LinesOf(k)) = 1
        /\ \A k \in ReferencedKeys \ DOMAIN Namespace : LinesOf(k) = {}
        /\ \A j \in 1..Len(CitedSection) :
              IF j = 1 THEN CitedSection[j] = SectionHeader
              ELSE CitedSection[j].kind = "line" /\ CitedSection[j].key \in ReferencedKeys
        /\ \A k1, k2 \in ReferencedKeys \cap DOMAIN Namespace :
              FirstReference(k1) < FirstReference(k2) =>
                  \A j1 \in LinesOf(k1), j2 \in LinesOf(k2) : j1 < j2

C14_Witness ==
    /\ pc # "resolve"
    /\ Len(report_text) = 3
    /\ report_text[1] = report_text[3]
    /\ report_text[1].kind = "ref"
    /\ report_text[2].kind = "ref"
    /\ Cardinality(ReferencedKeys \cap DOMAIN Namespace) = 1
    /\ Cardinality(ReferencedKeys \ DOMAIN Namespace) = 1
    /\ Len(CitedSection) = 2

\* C15: every line "[X.i] text" of the cited-evidence section of the final
\* report has X among the keys of published_reports, 1 <= i <=
\* Len(expert_pool[X].evidences), and text the i-th evidence of expert X,
\* not another expert's evidence and not the i-th item of the evidences of
\* all experts taken together.
C15_CitationAttribution ==
    pc # "resolve" =>
        \A j \in 1..Len(resolved[1]) :
            resolved[1][j].kind = "line" =>
                LET X == resolved[1][j].key[1]
                    i == resolved[1][j].key[2]
                IN  /\ X \in DOMAIN blackboard.published_reports
                    /\ i >= 1
                    /\ i <= Len(expert_pool[X].evidences)
                    /\ resolved[1][j].content = expert_pool[X].evidences[i]

C15_Witness ==
    /\ pc # "resolve"
    /\ DOMAIN blackboard.published_reports = RefGroups
    /\ \A g \in RefGroups : Len(expert_pool[g].evidences) = MaxEvidences
    /\ \E j \in 1..Len(resolved[1]) :
          /\ resolved[1][j].kind = "line"
          /\ resolved[1][j].key = <<"group_2", 2>>

\* C16: the resolution is idempotent: applied to its own result, with the
\* same namespace, it returns that result, also for a text with a legal tag.
C16_ResolveIdempotent ==
    pc = "resolved" => resolved[2] = resolved[1]

\* C19: after any sequence of upsert and delete calls, also with payload
\* records that carry an id of the caller's and with several records for one
\* list, the ids of the records of each list are pairwise distinct.
C19_IdsDistinct ==
    \A b \in DOMAIN patient_info :
        \A i, j \in 1..Len(patient_info[b]) :
            i # j => patient_info[b][i].id # patient_info[b][j].id

\* C20: an upsert call merges each payload record whose id is in the target
\* list into the record of that id, given fields over stored ones, and leaves
\* the list's length, that record's id and every other record as they were;
\* each payload record without id appends one record whose generated id was
\* not in the list before; the state object passed in is not modified.
C20_UpsertMergeOrAppend ==
    tool_call.tool = "upsert" =>
        LET before == tool_call.before
            payload == tool_call.payload
        IN
        /\ tool_call.arg = before
        /\ \A b \in Buckets \ DOMAIN payload :
              ListOf(patient_info, b) = ListOf(before, b)
        /\ \A b \in DOMAIN payload :
              LET old == ListOf(before, b)
                  new == patient_info[b]
                  records == payload[b]
                  merging == {j \in 1..Len(records) : records[j].id \in IdsOf(old)}
                  appending == (1..Len(records)) \ merging
              IN
              /\ Len(new) = Len(old) + Cardinality(appending)
              /\ \A i \in 1..Len(old) :
                    /\ new[i].id = old[i].id
                    /\ (\A j \in merging : records[j].id # old[i].id) => new[i] = old[i]
              /\ \A j \in merging :
                    LET same == {k \in merging : records[k].id = records[j].id}
                        named == {k \in same : records[k].name # Missing}
                    IN  \E i \in 1..Len(old) :
                          /\ old[i].id = records[j].id
                          /\ new[i].name =
                                IF named = {} THEN old[i].name
                                ELSE records[CHOOSE k \in named : \A m \in named : m <= k].name
                          /\ \A h \in (1..Len(old)) \ {i} :
                                old[h].id = records[j].id => new[h] = old[h]
              /\ \A j \in appending :
                    LET r == new[Len(old) + Cardinality({m \in appending : m <= j})] IN
                    /\ r.name = records[j].name
                    /\ IF records[j].id = NoId
                       THEN r.id \in Ids \ IdsOf(old)
                       ELSE r.id = records[j].id

C20_Witness ==
    /\ tool_call.tool = "upsert"
    /\ \E b \in DOMAIN tool_call.payload :
          /\ Len(tool_call.payload[b]) = 2
          /\ tool_call.payload[b][1].id \in IdsOf(ListOf(tool_call.before, b))
          /\ tool_call.payload[b][1].name = Missing
          /\ tool_call.payload[b][2].id = NoId
          /\ \E i \in 1..Len(patient_info[b]) :
                /\ patient_info[b][i].id = tool_call.payload[b][1].id
                /\ patient_info[b][i].name = "a"
          /\ Len(patient_info[b]) = Len(ListOf(tool_call.before, b)) + 1

FanOutMarked ==
    \E i \in 1..Len(messages) : messages[i].kind = "fan_out" /\ messages[i].n = round_count

\* C22: every executed stage appends at least one message to the outer
\* progress stream: triage, every review pass, the summary, and every
\* fan-out (the marker of its round, or a message returned by one of its
\* runners), the first-round fan-out in which every runner succeeds included.
C22_StageProgress ==
    [][/\ (pc = "triage_to_mdt_node" /\ pc' = "experts") => Len(messages') > Len(messages)
       /\ (pc = "experts" /\ pc' = "expert_review") =>
             (FanOutMarked \/ Len(messages') > Len(messages))
       /\ (pc = "expert_review" /\ pc' = "routing_decision") => Len(messages') > Len(messages)
       /\ (pc = "summary" /\ pc' = "END") => Len(messages') > Len(messages)]_vars

\* C23: route_after_prediagnosis returns "__end__" when start_diagnosis is
\* false or missing from the state, and "mdt_diagnosis" when it is true.
\* The state read is the one prediagnosis has left, and the empty state.
C23_RouteAfterPrediagnosis ==
    /\ route_after_prediagnosis(EmptyMap) = "__end__"
    /\ Len(main_log) >= 1 =>
          route_after_prediagnosis([start_diagnosis |-> start_diagnosis]) =
             (IF start_diagnosis THEN "mdt_diagnosis" ELSE "__end__")

\* C24: after every review pass, consensus_reached is true exactly when no
\* slot is without error or every slot without error is satisfied, on the
\* pool as it is after the pass.
C24_ConsensusAfterReview ==
    pc = "routing_decision" =>
        (consensus_reached <=>
            \A g \in DOMAIN expert_pool :
                expert_pool[g].has_error \/ expert_pool[g].is_satisfied)

\* consensus after a pass in which one slot became errored, another was
\* satisfied, and a third had been satisfied in an earlier pass
C24_Witness ==
    /\ pc = "routing_decision" /\ consensus_reached /\ Reviews >= 2
    /\ \E g \in DOMAIN review_log[Reviews] :
          review_log[Reviews][g].kind = "raise" /\ expert_pool[g].has_error
    /\ \E g \in DOMAIN review_log[Reviews] : SatisfiedAt(g, Reviews)
    /\ \E g \in settings.groups :
          /\ g \notin DOMAIN review_log[Reviews]
          /\ \E i \in 1..(Reviews - 1) : SatisfiedAt(g, i)
          /\ ~expert_pool[g].has_error

\* an expert node of the running fan-out has not returned yet
RunnerExecuting == \E g \in DOMAIN writes : writes[g].status = "pending"

\* C25: the review pass of a round starts only after every runner dispatched
\* in the round's fan-out has returned (success, error or skip), exactly one
\* review pass runs per fan-out, and no runner executes while a review pass
\* is in progress.
C25_JoinBeforeReview ==
    /\ RunnerExecuting => pc = "experts"
    /\ pc = "expert_review" =>
          /\ \A g \in settings.groups : writes[g].status \in {"ok", "raise", "skip"}
          /\ Len(runner_log) = Reviews + 1
    /\ pc = "experts" => FanOutsStarted = Reviews + 1
    /\ pc \in {"routing_decision", "fan_out", "summary", "END", "error"} =>
          Len(runner_log) = Reviews

\* the review of the second round is about to start: its fan-out has
\* returned a skip, an error and a success
C25_Witness ==
    /\ pc = "expert_review" /\ Len(runner_log) = 2 /\ Reviews = 1
    /\ \E g \in settings.groups : runner_log[2][g] = "skip"
    /\ \E g \in settings.groups : runner_log[2][g] = "raise"
    /\ \E g \in settings.groups : runner_log[2][g] = "ok"

\* slot messages a begin with the messages b
IsPrefix(b, a) == Len(b) <= Len(a) /\ SubSeq(a, 1, Len(b)) = b

C27_BlackboardOnlyReviewer ==
    [][pc \notin {"triage_to_mdt_node", "expert_review"} => blackboard' = blackboard]_vars

\* the summarizer has run on a blackboard with reports and conflicts, after a
\* marker and runners that succeeded, raised and skipped
C27_Witness ==
    /\ pc = "END" /\ Len(runner_log) >= 2
    /\ DOMAIN blackboard.published_reports # {}
    /\ DOMAIN blackboard.conflicts # {}
    /\ \E g \in settings.groups : runner_log[2][g] = "skip"
    /\ \E g \in settings.groups : runner_log[2][g] = "raise"
    /\ \E g \in settings.groups : runner_log[2][g] = "ok"

\* the experts that received an unsatisfied verdict in pass i
UnsatisfiedAt(i) ==
    {g \in DOMAIN review_log[i] :
        review_log[i][g].kind = "object" /\ ~review_log[i][g].is_satisfied}

\* C28: after every review pass, blackboard.conflicts maps exactly the
\* experts that received an unsatisfied verdict in that pass to the verdict's
\* reason, which is the slot's reinvestigate_reason; it holds no entry of an
\* earlier pass and none for an expert satisfied, skipped or errored in the
\* pass.
C28_ConflictsOfThePass ==
    pc = "routing_decision" =>
        /\ DOMAIN blackboard.conflicts = UnsatisfiedAt(Reviews)
        /\ \A g \in DOMAIN blackboard.conflicts :
              /\ blackboard.conflicts[g] = review_log[Reviews][g].reinvestigate_reason
              /\ blackboard.conflicts[g] = expert_pool[g].reinvestigate_reason

\* a second pass with a conflict, whose first pass had a conflict of an expert
\* that the second satisfied, and in which an expert errored
C28_Witness ==
    /\ pc = "routing_decision" /\ Reviews = 2
    /\ DOMAIN blackboard.conflicts # {}
    /\ \E g \in UnsatisfiedAt(1) : SatisfiedAt(g, 2)
    /\ \E g \in DOMAIN review_log[2] : review_log[2][g].kind = "raise"

\* C29: in every reachable state, every slot with is_satisfied = true has a
\* null or empty reinvestigate_reason, whatever the verdict objects contain.
C29_SatisfiedHasNoReason ==
    \A g \in DOMAIN expert_pool :
        expert_pool[g].is_satisfied => expert_pool[g].reinvestigate_reason \in {None, ""}

\* C30: for every step of a run and every expert slot, the slot's messages
\* before the step are a prefix of its messages after the step.
C30_MessagesAppendOnly ==
    [][\A g \in (DOMAIN expert_pool) \cap (DOMAIN expert_pool') :
          pc # "triage_to_mdt_node" =>
             IsPrefix(expert_pool[g].messages, expert_pool'[g].messages)]_vars

\* the messages the progress stream received in the step, when it only grew
Emitted(before, after) == SubSeq(after, Len(before) + 1, Len(after))

\* C31: a successful run of an expert's inner agent yields a slot whose
\* messages are the previous ones followed by exactly one message, the
\* agent's final message, whose report is that message's content, whose
\* evidences are those the agent returned, with has_error false and the run
\* counter incremented by 1; a run that raises leaves messages and evidences
\* unchanged, sets has_error and an error report, increments the run counter
\* by 1 and emits exactly one progress message.
C31_RunnerEffect ==
    [][(pc = "experts" /\ pc' = "expert_review") =>
         /\ \A g \in settings.groups :
              LET old == expert_pool[g]
                  new == expert_pool'[g]
                  n == old.times_deep_diagnosis + 1
              IN  /\ writes[g].status = "ok" =>
                        /\ new.messages = old.messages \o <<EMsg("ai", "report", n)>>
                        /\ new.report = Report("report", g, n)
                        /\ new.evidences = AgentEvidences(g, n, old.evidences)
                        /\ new.has_error = FALSE
                        /\ new.times_deep_diagnosis = n
                  /\ writes[g].status = "raise" =>
                        /\ new.messages = old.messages
                        /\ new.evidences = old.evidences
                        /\ new.has_error = TRUE
                        /\ new.report = Report("exec_error", g, n)
                        /\ new.times_deep_diagnosis = n
                        /\ Cardinality({i \in 1..Len(Emitted(messages, messages')) :
                                          Emitted(messages, messages')[i].g = g}) = 1
         /\ IsPrefix(messages, messages')
         /\ Len(Emitted(messages, messages')) =
               Cardinality({g \in settings.groups : writes[g].status = "raise"})]_vars

\* a second fan-out has returned with a success and an error
C31_Witness ==
    /\ pc = "expert_review" /\ Len(runner_log) = 2
    /\ \E g \in settings.groups :
          /\ runner_log[2][g] = "ok"
          /\ expert_pool[g].times_deep_diagnosis = 2
          /\ Len(expert_pool[g].evidences) = 2
    /\ \E g \in settings.groups :
          /\ runner_log[2][g] = "raise"
          /\ expert_pool[g].has_error
          /\ expert_pool[g].times_deep_diagnosis = 2

\* C32: once a slot has is_satisfied = true, no later fan-out or review pass
\* of the run changes any field of that slot: a satisfied expert is never
\* re-run and never re-reviewed.
C32_SatisfiedSlotFrozen ==
    [][\A g \in DOMAIN expert_pool :
          expert_pool[g].is_satisfied =>
             /\ g \in DOMAIN expert_pool'
             /\ expert_pool'[g] = expert_pool[g]
             /\ (pc = "experts" /\ pc' = "expert_review") => writes[g].status = "skip"
             /\ (pc = "expert_review" /\ pc' # pc) =>
                   g \notin DOMAIN review_log'[Len(review_log')]]_vars

\* a slot satisfied in the first pass has been through a second fan-out and
\* a second pass in which its peers were run and reviewed
C32_Witness ==
    /\ Reviews >= 2 /\ pc = "routing_decision"
    /\ \E g \in settings.groups :
          /\ SatisfiedAt(g, 1)
          /\ runner_log[2][g] = "skip"
          /\ g \notin DOMAIN review_log[2]
          /\ expert_pool[g].times_deep_diagnosis = 1
    /\ DOMAIN review_log[2] # {}

\* the positions of the fan-out marker messages in the progress stream
Markers == {i \in 1..Len(messages) : messages[i].kind = "fan_out"}

\* C33: every "continue" decision of the router is followed, before any
\* runner of the next round starts, by exactly one fan-out marker message
\* whose round number is the current round_count; the first fan-out after
\* triage has no marker, and the marker node changes nothing but the
\* progress stream.
C33_MarkerPerContinue ==
    [][/\ (pc = "routing_decision" /\ decision' = "continue") => pc' = "fan_out"
       /\ pc = "fan_out" =>
             /\ pc' = "experts"
             /\ messages' = messages \o <<PMsg("fan_out", "", round_count, 0, 0, "")>>
             /\ UNCHANGED <<expert_pool, blackboard, round_count, max_rounds,
                            consensus_reached, final_report>>
       /\ pc' = "experts" =>
             /\ Cardinality(Markers') = Len(runner_log')
             /\ Len(runner_log') = 0 => Markers' = {}
             /\ Len(runner_log') >= 1 =>
                   /\ messages'[Len(messages')].kind = "fan_out"
                   /\ messages'[Len(messages')].n = round_count']_vars

\* the second fan-out has been dispatched and no runner of it has returned:
\* one marker, for the round that is starting
C33_Witness ==
    /\ pc = "experts" /\ Len(runner_log) = 1 /\ decision = "continue"
    /\ Cardinality(Markers) = 1
    /\ round_count = InitialRound + 1
    /\ messages[Len(messages)] = PMsg("fan_out", "", round_count, 0, 0, "")
    /\ \A g \in settings.groups : writes[g].status = "pending"

\* C34: every review pass, including one in which no expert is reviewed
\* because all are satisfied or errored, emits exactly one progress message;
\* its N is the round just reviewed (round_count before the increment), its
\* M the number of slots without error after the pass and its K the number
\* of those that are satisfied.
C34_ReviewProgressMessage ==
    [][(pc = "expert_review" /\ review_log' # review_log) =>
         /\ IsPrefix(messages, messages')
         /\ Len(Emitted(messages, messages')) = 1
         /\ LET msg == messages'[Len(messages')]
                active == {g \in DOMAIN expert_pool' : ~expert_pool'[g].has_error}
            IN  /\ msg.kind = "review"
                /\ msg.n = round_count
                /\ msg.m = Cardinality(active)
                /\ msg.k = Cardinality({g \in active : expert_pool'[g].is_satisfied})]_vars

\* C35: the progress message of a review pass carries the consensus suffix
\* exactly when the pass sets consensus_reached, and the max-round suffix
\* exactly when the pass ends without consensus and leaves
\* round_count >= max_rounds, which is when the router that follows ends the
\* loop on the round budget.
C35_ProgressSuffix ==
    pc = "routing_decision" =>
        LET msg == messages[Len(messages)] IN
        /\ msg.kind = "review"
        /\ (msg.suffix = "consensus") <=> consensus_reached
        /\ (msg.suffix = "max_rounds") <=> (~consensus_reached /\ round_count >= max_rounds)
        /\ (~consensus_reached /\ round_count >= max_rounds) <=>
              (~consensus_reached
                 /\ should_continue_or_end(consensus_reached, round_count, max_rounds) = "end")

\* the numbers N of the tags of group g's published report that are indexes
\* of the group's evidences
ValidNumbers(g) ==
    {n \in {FindAllNumbers(blackboard.published_reports[g])[j] :
               j \in 1..Len(FindAllNumbers(blackboard.published_reports[g]))} :
        1 <= n /\ n <= Len(expert_pool[g].evidences)}

\* C36: in the text of each published report as given to the summarizer
\* model, every numeric tag <ref>N</ref> has been replaced by
\* <ref>group_id.N</ref> with the report's own group_id; no purely numeric
\* tag remains in the rendered reports.
C36_NumericTagsRewritten ==
    pc = "rendered" =>
        \A g \in DOMAIN all_reports_text :
            LET text == blackboard.published_reports[g]
                out == all_reports_text[g]
            IN  /\ \A j \in 1..Len(out) : out[j].kind # "ref_number"
                /\ \A j \in 1..Len(text) :
                      text[j].kind = "ref_number" =>
                         (j <= Len(out) /\ out[j] = RefToken(g, text[j].n))

\* C36, amended: the text of each published report is given to the
\* summarizer as it is, numeric tags included, followed, when at least one
\* tag's N is an index of the group's own evidences, by a heading and one
\* line "[N] evidence N of the group" for every such N, each once, in
\* ascending order of N; otherwise nothing is added.
C36_NumericTagsDetailed ==
    pc = "rendered" =>
        \A g \in DOMAIN all_reports_text :
            LET text == blackboard.published_reports[g]
                out == all_reports_text[g]
                valid == ValidNumbers(g)
                lines == SubSeq(out, Len(text) + 2, Len(out))
            IN  /\ IsPrefix(text, out)
                /\ valid = {} => out = text
                /\ valid # {} =>
                      /\ Len(out) = Len(text) + 1 + Cardinality(valid)
                      /\ out[Len(text) + 1] = DetailHeader
                      /\ \A j \in 1..Len(lines) :
                            /\ lines[j].kind = "detail_line"
                            /\ lines[j].n \in valid
                            /\ lines[j].content = expert_pool[g].evidences[lines[j].n]
                            /\ \A k \in 1..Len(lines) : j < k => lines[j].n < lines[k].n

\* a report whose tags name the second evidence, twice, then the first, and
\* is rendered with two lines
C36_Witness ==
    /\ pc = "rendered"
    /\ \E g \in DOMAIN all_reports_text :
          /\ FindAllNumbers(blackboard.published_reports[g]) = <<2, 2, 1>>
          /\ Len(all_reports_text[g]) = Len(blackboard.published_reports[g]) + 3

C39_PublishedAreSuccessfulReports ==
    \A g \in DOMAIN blackboard.published_reports :
        /\ g \in DOMAIN expert_pool
        /\ blackboard.published_reports[g].kind = "report"
        /\ blackboard.published_reports[g].g = g
        /\ blackboard.published_reports[g].n \in 1..expert_pool[g].times_deep_diagnosis

\* a review pass has published for one expert while another expert's run had
\* raised, and that expert's report is not on the blackboard
C39_Witness ==
    /\ DOMAIN blackboard.published_reports # {}
    /\ \E g \in DOMAIN expert_pool :
          /\ expert_pool[g].has_error
          /\ expert_pool[g].report.kind = "exec_error"
          /\ g \notin DOMAIN blackboard.published_reports

\* the number of patient-portrait messages in a message list
RECURSIVE PortraitCount(_)
PortraitCount(msgs) ==
    IF msgs = <<>> THEN 0
    ELSE (IF Head(msgs).kind = "portrait" THEN 1 ELSE 0) + PortraitCount(Tail(msgs))

\* C40: an expert's messages contain the patient-portrait review message at
\* most once, however many review passes the expert goes through
C40_PortraitAtMostOnce ==
    \A g \in DOMAIN expert_pool : PortraitCount(expert_pool[g].messages) <= 1

====
